---- MODULE Spec2Model ----
(***************************************************************************)
(* Model of the auth-service of microservices_rs:                          *)
(*   src/src/auth-service/users.rs  UsersImpl (the credential store)       *)
(*   src/src/auth-service/auth.rs   AuthService (sign_in, sign_up,         *)
(*                                  sign_out over two Mutex-guarded stores)*)
(* The session store (crate::sessions) is not part of the sources at hand; *)
(* create_session and delete_session follow the written specification.     *)
(***************************************************************************)
EXTENDS Integers, Sequences, FiniteSets, TLC

\* ------------------------------------------------------------------ bounds
\* Number of concurrent callers (request tasks on the tokio runtime).
NumCallers == 2
\* Number of operations dispatched in one behaviour.
MaxOps == 4

Callers == 1..NumCallers

\* Inputs of the requests.  The empty string is a legal username: neither
\* sign_up nor create_user validates it.
Usernames == {"", "alice"}
Passwords == {"secret", "wrong"}
\* Values SaltString::generate(&mut OsRng) may return.
Salts == {"salt1", "salt2"}

\* Uuid::NAMESPACE_X500.to_string()
NAMESPACE_X500 == "6ba7b814-9dad-11d1-80b4-00c04fd430c8"
\* Ids a caller may hand to delete_user: the one id ever assigned, and one
\* that is the key of no identity.
DeleteIds == {NAMESPACE_X500, "00000000-0000-0000-0000-000000000000"}

\* The n-th token of the session store (a non-empty string, fresh for each n).
Token(n) == "token-" \o ToString(n)
\* Tokens a caller may hand to sign_out: the empty string and the first two
\* tokens of the session store, each of them handed in before it is issued
\* (a token never issued), while its session is live, or after its removal.
SignOutTokens == {"", Token(1), Token(2)}

VARIABLES
    username_to_user,  \* UsersImpl.username_to_user : username -> User
    uuid_to_user,      \* UsersImpl.uuid_to_user     : uuid -> User
    sessions,          \* session store              : token -> user uuid
    token_counter,     \* number of tokens the session store has issued
    users_lock,        \* callers holding the Mutex of users_service
    sessions_lock,     \* callers holding the Mutex of sessions_service
    users_poisoned,    \* users_service.is_poisoned()
    sessions_poisoned, \* sessions_service.is_poisoned()
    pc,                \* position of each caller in its handler
    req,               \* the request of each caller
    user_uuid,         \* sign_in's local `user_uuid` of each caller
    resp,              \* the response each caller got
    ops,               \* number of operations dispatched so far
    registered,        \* history: the identities signed up (the latest of
                       \* each username) and not deleted
    note               \* history: what each caller's store call observed

vars == <<username_to_user, uuid_to_user, sessions, token_counter, users_lock,
          sessions_lock, users_poisoned, sessions_poisoned, pc, req,
          user_uuid, resp, ops, registered, note>>

store_vars == <<username_to_user, uuid_to_user>>
lock_vars == <<users_lock, sessions_lock, users_poisoned, sessions_poisoned>>

\* ------------------------------------------------------------ data types
NoReq == [op |-> "none", username |-> "", password |-> "", session_token |-> ""]
NoResp == [status_code |-> "NONE", session_token |-> "", user_uuid |-> ""]
NoNote == [known |-> FALSE, why |-> ""]

\* struct User { user_uuid, username, password }
User(uuid, username, hashed_password) ==
    [user_uuid |-> uuid, username |-> username, password |-> hashed_password]

\* The PBKDF2 digest of a password under a salt: a one-way function of both,
\* kept symbolic.
Pbkdf2Digest(password, salt) == <<"pbkdf2-sha256", salt, password>>

\* Pbkdf2.hash_password(password.as_bytes(), &salt): the PHC string carries
\* the salt and the digest.  With the default parameters it returns Ok.
hash_password(password, salt) ==
    [ok |-> TRUE, salt |-> salt, hash |-> Pbkdf2Digest(password, salt)]

\* PasswordHash::new(&hashed_password).ok(): parses a stored PHC string.
parse_hash(hashed_password) ==
    [ok |-> hashed_password.ok, salt |-> hashed_password.salt,
     hash |-> hashed_password.hash]

\* Pbkdf2.verify_password(password.as_bytes(), &parsed_hash).is_ok()
verify_password(password, parsed_hash) ==
    parsed_hash.hash = Pbkdf2Digest(password, parsed_hash.salt)

is_empty(s) == s = ""

\* ---------------------------------------------------------------- users.rs
\* create_user, lines 32-37: does any stored user carry this username?
username_exists(new_username) ==
    \E k \in DOMAIN username_to_user :
        username_to_user[k].username = new_username

\* create_user, lines 48-52: the User that is built.
new_user(new_username, password, salt) ==
    User(NAMESPACE_X500, new_username, hash_password(password, salt))

\* create_user, lines 56-65: both maps are assigned a map built from the one
\* new user.
saved_username_to_user(user) == user.username :> user
saved_uuid_to_user(user) == user.user_uuid :> user

\* users.rs 71-89: which exit of get_user_uuid is taken.
get_user_uuid_why(username, password) ==
    IF username \notin DOMAIN username_to_user THEN "unknown_user"
    ELSE IF ~parse_hash(username_to_user[username].password).ok THEN "bad_hash"
    ELSE IF verify_password(password,
                            parse_hash(username_to_user[username].password))
         THEN "verified"
         ELSE "wrong_password"

\* Mutant of get_user_uuid: the stored user's uuid is returned without
\* verifying the password.
get_user_uuid_NoVerify(username, password) ==
    IF username \in DOMAIN username_to_user
    THEN [some |-> TRUE, uuid |-> username_to_user[username].user_uuid]
    ELSE [some |-> FALSE, uuid |-> ""]

\* users.rs 70-90: Some(uuid) only for a stored username whose password
\* verifies.
get_user_uuid(username, password) ==
    IF get_user_uuid_why(username, password) = "verified"
    THEN [some |-> TRUE, uuid |-> username_to_user[username].user_uuid]
    ELSE [some |-> FALSE, uuid |-> ""]

\* A map without one key (HashMap::remove).
map_remove(m, key) == [k \in DOMAIN m \ {key} |-> m[k]]

\* delete_user, lines 94-101: the username looked up, String::new() if absent.
delete_user_name(uuid) ==
    IF uuid \in DOMAIN uuid_to_user THEN uuid_to_user[uuid].username ELSE ""

delete_user_uuid_map(uuid) == map_remove(uuid_to_user, uuid)
\* Mutant of delete_user_username_map: the removal from username_to_user
\* (line 103) is missing.
delete_user_username_map_Keeps(uuid) == username_to_user

delete_user_username_map(uuid) ==
    map_remove(username_to_user, delete_user_name(uuid))

\* ------------------------------------------------------------- sessions
\* issue(identity_id) -> token: a fresh token, recorded with the identity id.
create_session_token == Token(token_counter + 1)
\* Mutant of create_session_map: one session per identity, the new session
\* replaces the sessions the identity already has.
create_session_map_OnePerIdentity(uuid) ==
    [t \in {k \in DOMAIN sessions : sessions[k] # uuid}
              \cup {create_session_token} |->
        IF t = create_session_token THEN uuid ELSE sessions[t]]
create_session_map(uuid) ==
    [t \in DOMAIN sessions \cup {create_session_token} |->
        IF t = create_session_token THEN uuid ELSE sessions[t]]
\* Tokens that were issued and whose session is gone: only delete_session
\* removes a session, so these are the revoked tokens.
revoked == {Token(n) : n \in 1..token_counter} \ DOMAIN sessions
\* revoke(token): removes the session if present.
delete_session_map(token) == map_remove(sessions, token)

\* ------------------------------------------------------------- responses
\* sign_in, lines 65-69
sign_in_failure ==
    [status_code |-> "FAILURE", session_token |-> "", user_uuid |-> ""]
\* Mutant of sign_in_success: the assignment of user_uuid (line 85) is missing.
sign_in_success_NoUuid(session_token, uuid) ==
    [status_code |-> "SUCCESS", session_token |-> session_token,
     user_uuid |-> ""]
\* sign_in, lines 57-61 and 84-86
sign_in_success(session_token, uuid) ==
    [status_code |-> "SUCCESS", session_token |-> session_token,
     user_uuid |-> uuid]
\* sign_up, lines 109-122
sign_up_response(ok) ==
    [status_code |-> IF ok THEN "SUCCESS" ELSE "FAILURE",
     session_token |-> "", user_uuid |-> ""]
\* sign_out, lines 142-144
sign_out_response ==
    [status_code |-> "SUCCESS", session_token |-> "", user_uuid |-> ""]

\* ------------------------------------------------------------------ Init
\* AuthService::new over UsersImpl::default() and an empty session store,
\* as main and the tests construct it; the mutexes come with the poison flags
\* given.
InitWith(users_flag, sessions_flag) ==
    /\ username_to_user = << >>
    /\ uuid_to_user = << >>
    /\ sessions = << >>
    /\ token_counter = 0
    /\ users_lock = {}
    /\ sessions_lock = {}
    /\ users_poisoned = users_flag
    /\ sessions_poisoned = sessions_flag
    /\ pc = [c \in Callers |-> "idle"]
    /\ req = [c \in Callers |-> NoReq]
    /\ user_uuid = [c \in Callers |-> ""]
    /\ resp = [c \in Callers |-> NoResp]
    /\ ops = 0
    /\ registered = {}
    /\ note = [c \in Callers |-> NoNote]

\* Fresh mutexes: Mutex::new(..) is not poisoned.
Init == InitWith(FALSE, FALSE)

\* Mutexes handed to AuthService::new that a panic has already poisoned.
InitPoisoned ==
    \E users_flag \in BOOLEAN, sessions_flag \in BOOLEAN :
        /\ users_flag \/ sessions_flag
        /\ InitWith(users_flag, sessions_flag)

\* ---------------------------------------------------------------- sign_up
\* A SignUpRequest arrives (auth.rs 93-99).
SignUpDispatch(c) ==
    /\ pc[c] = "idle"
    /\ ops < MaxOps
    /\ ops' = ops + 1
    /\ \E u \in Usernames, p \in Passwords :
         req' = [req EXCEPT ![c] = [op |-> "sign_up", username |-> u,
                                    password |-> p, session_token |-> ""]]
    /\ pc' = [pc EXCEPT ![c] = "su_lock"]
    /\ UNCHANGED <<store_vars, sessions, token_counter, lock_vars, user_uuid,
                   resp, registered, note>>

\* Mutant of SignUpLock: create_user is entered without waiting for the lock.
SignUpLock_NoExclusion(c) ==
    /\ pc[c] = "su_lock"
    /\ users_lock' = users_lock \cup {c}
    /\ pc' = [pc EXCEPT ![c] = "su_check"]
    /\ UNCHANGED <<ops, store_vars, sessions, token_counter, sessions_lock,
                   users_poisoned, sessions_poisoned, req, user_uuid, resp,
                   registered, note>>

\* auth.rs 102-105: panic on a poisoned lock, else lock() (blocks while held).
SignUpLock(c) ==
    /\ pc[c] = "su_lock"
    /\ IF users_poisoned
       THEN /\ pc' = [pc EXCEPT ![c] = "panicked"]
            /\ UNCHANGED users_lock
       ELSE /\ users_lock = {}
            /\ users_lock' = {c}
            /\ pc' = [pc EXCEPT ![c] = "su_check"]
    /\ UNCHANGED <<ops, store_vars, sessions, token_counter, sessions_lock,
                   users_poisoned, sessions_poisoned, req, user_uuid, resp,
                   registered, note>>

\* Mutant of CreateUserCheck: the Err return keeps the guard of users_service.
CreateUserCheck_KeepsGuard(c) ==
    /\ pc[c] = "su_check"
    /\ note' = [note EXCEPT ![c] =
                  [known |-> \E r \in registered : r.username = req[c].username,
                   why |-> ""]]
    /\ IF username_exists(req[c].username)
       THEN /\ resp' = [resp EXCEPT ![c] = sign_up_response(FALSE)]
            /\ pc' = [pc EXCEPT ![c] = "returned"]
       ELSE /\ pc' = [pc EXCEPT ![c] = "su_insert"]
            /\ UNCHANGED resp
    /\ UNCHANGED <<ops, store_vars, sessions, token_counter, users_lock,
                   sessions_lock, users_poisoned, sessions_poisoned, req,
                   user_uuid, registered>>

\* Mutant of CreateUserCheck: on a duplicate the stored password hash is
\* overwritten before Err is returned.
CreateUserCheck_Overwrites(c) ==
    /\ pc[c] = "su_check"
    /\ note' = [note EXCEPT ![c] =
                  [known |-> \E r \in registered : r.username = req[c].username,
                   why |-> ""]]
    /\ IF username_exists(req[c].username)
       THEN /\ users_lock' = users_lock \ {c}
            /\ resp' = [resp EXCEPT ![c] = sign_up_response(FALSE)]
            /\ pc' = [pc EXCEPT ![c] = "returned"]
            /\ \E salt \in Salts :
                 username_to_user' =
                    [username_to_user EXCEPT ![req[c].username] =
                        new_user(req[c].username, req[c].password, salt)]
            /\ UNCHANGED uuid_to_user
       ELSE /\ pc' = [pc EXCEPT ![c] = "su_insert"]
            /\ UNCHANGED <<users_lock, resp, store_vars>>
    /\ UNCHANGED <<ops, sessions, token_counter, sessions_lock,
                   users_poisoned, sessions_poisoned, req, user_uuid,
                   registered>>

\* users.rs 32-39 under the lock: the uniqueness check; on a duplicate
\* create_user returns Err, the guard is dropped and sign_up answers FAILURE.
CreateUserCheck(c) ==
    /\ pc[c] = "su_check"
    /\ note' = [note EXCEPT ![c] =
                  [known |-> \E r \in registered : r.username = req[c].username,
                   why |-> ""]]
    /\ IF username_exists(req[c].username)
       THEN /\ users_lock' = users_lock \ {c}
            /\ resp' = [resp EXCEPT ![c] = sign_up_response(FALSE)]
            /\ pc' = [pc EXCEPT ![c] = "returned"]
       ELSE /\ pc' = [pc EXCEPT ![c] = "su_insert"]
            /\ UNCHANGED <<users_lock, resp>>
    /\ UNCHANGED <<ops, store_vars, sessions, token_counter, sessions_lock,
                   users_poisoned, sessions_poisoned, req, user_uuid,
                   registered>>

\* users.rs 41-67 under the lock: salt, hash, build the user, assign both maps,
\* return Ok; the guard is dropped and sign_up answers SUCCESS.
CreateUserInsert(c) ==
    /\ pc[c] = "su_insert"
    /\ \E salt \in Salts :
         LET hashed == hash_password(req[c].password, salt)
             user == new_user(req[c].username, req[c].password, salt)
         IN IF ~hashed.ok
            THEN /\ resp' = [resp EXCEPT ![c] = sign_up_response(FALSE)]
                 /\ UNCHANGED <<store_vars, registered>>
            ELSE /\ username_to_user' = saved_username_to_user(user)
                 /\ uuid_to_user' = saved_uuid_to_user(user)
                 /\ resp' = [resp EXCEPT ![c] = sign_up_response(TRUE)]
                 /\ registered' =
                        {r \in registered : r.username # req[c].username}
                        \cup {[username |-> req[c].username,
                                password |-> req[c].password,
                                user_uuid |-> user.user_uuid]}
    /\ users_lock' = users_lock \ {c}
    /\ pc' = [pc EXCEPT ![c] = "returned"]
    /\ UNCHANGED <<ops, sessions, token_counter, sessions_lock, users_poisoned,
                   sessions_poisoned, req, user_uuid, note>>

\* ---------------------------------------------------------------- sign_in
\* A SignInRequest arrives (auth.rs 41-47).
SignInDispatch(c) ==
    /\ pc[c] = "idle"
    /\ ops < MaxOps
    /\ ops' = ops + 1
    /\ \E u \in Usernames, p \in Passwords :
         req' = [req EXCEPT ![c] = [op |-> "sign_in", username |-> u,
                                    password |-> p, session_token |-> ""]]
    /\ pc' = [pc EXCEPT ![c] = "si_lock_users"]
    /\ UNCHANGED <<store_vars, sessions, token_counter, lock_vars, user_uuid,
                   resp, registered, note>>

\* auth.rs 50-53: lock users_service, panic if the lock is poisoned.
SignInLockUsers(c) ==
    /\ pc[c] = "si_lock_users"
    /\ IF users_poisoned
       THEN /\ pc' = [pc EXCEPT ![c] = "panicked"]
            /\ UNCHANGED users_lock
       ELSE /\ users_lock = {}
            /\ users_lock' = {c}
            /\ pc' = [pc EXCEPT ![c] = "si_auth"]
    /\ UNCHANGED <<ops, store_vars, sessions, token_counter, sessions_lock,
                   users_poisoned, sessions_poisoned, req, user_uuid, resp,
                   registered, note>>

\* Mutant of SignInAuthenticate: on Some(uuid) the guard of users_service is
\* kept while the session store is locked and used.
SignInAuthenticate_KeepsGuard(c) ==
    /\ pc[c] = "si_auth"
    /\ LET found == get_user_uuid(req[c].username, req[c].password)
       IN /\ note' = [note EXCEPT ![c] =
                        [known |-> \E r \in registered :
                                      /\ r.username = req[c].username
                                      /\ r.password = req[c].password,
                         why |-> get_user_uuid_why(req[c].username,
                                                   req[c].password)]]
          /\ IF found.some
             THEN /\ user_uuid' = [user_uuid EXCEPT ![c] = found.uuid]
                  /\ pc' = [pc EXCEPT ![c] = "si_lock_sessions"]
                  /\ UNCHANGED <<resp, users_lock>>
             ELSE /\ resp' = [resp EXCEPT ![c] = sign_in_failure]
                  /\ pc' = [pc EXCEPT ![c] = "returned"]
                  /\ users_lock' = users_lock \ {c}
                  /\ UNCHANGED user_uuid
    /\ UNCHANGED <<ops, store_vars, sessions, token_counter, sessions_lock,
                   users_poisoned, sessions_poisoned, req, registered>>

\* auth.rs 54-73: get_user_uuid under the lock, the guard dropped at the end
\* of the statement; None is answered with the FAILURE response.
SignInAuthenticate(c) ==
    /\ pc[c] = "si_auth"
    /\ LET found == get_user_uuid(req[c].username, req[c].password)
       IN /\ note' = [note EXCEPT ![c] =
                        [known |-> \E r \in registered :
                                      /\ r.username = req[c].username
                                      /\ r.password = req[c].password,
                         why |-> get_user_uuid_why(req[c].username,
                                                   req[c].password)]]
          /\ IF found.some
             THEN /\ user_uuid' = [user_uuid EXCEPT ![c] = found.uuid]
                  /\ pc' = [pc EXCEPT ![c] = "si_lock_sessions"]
                  /\ UNCHANGED resp
             ELSE /\ resp' = [resp EXCEPT ![c] = sign_in_failure]
                  /\ pc' = [pc EXCEPT ![c] = "returned"]
                  /\ UNCHANGED user_uuid
    /\ users_lock' = users_lock \ {c}
    /\ UNCHANGED <<ops, store_vars, sessions, token_counter, sessions_lock,
                   users_poisoned, sessions_poisoned, req, registered>>

\* Mutant of SignInLockSessions: a poisoned lock is taken like a sound one.
SignInLockSessions_IgnoresPoison(c) ==
    /\ pc[c] = "si_lock_sessions"
    /\ sessions_lock = {}
    /\ sessions_lock' = {c}
    /\ pc' = [pc EXCEPT ![c] = "si_issue"]
    /\ UNCHANGED <<ops, store_vars, sessions, token_counter, users_lock,
                   users_poisoned, sessions_poisoned, req, user_uuid, resp,
                   registered, note>>

\* auth.rs 78-81: lock sessions_service, panic if the lock is poisoned.
SignInLockSessions(c) ==
    /\ pc[c] = "si_lock_sessions"
    /\ IF sessions_poisoned
       THEN /\ pc' = [pc EXCEPT ![c] = "panicked"]
            /\ UNCHANGED sessions_lock
       ELSE /\ sessions_lock = {}
            /\ sessions_lock' = {c}
            /\ pc' = [pc EXCEPT ![c] = "si_issue"]
    /\ UNCHANGED <<ops, store_vars, sessions, token_counter, users_lock,
                   users_poisoned, sessions_poisoned, req, user_uuid, resp,
                   registered, note>>

\* Mutant of SignInIssue: the identity is looked up again before the session
\* is created, and a sign_in whose identity is gone is answered with FAILURE.
SignInIssue_Rechecks(c) ==
    /\ pc[c] = "si_issue"
    /\ IF user_uuid[c] \in DOMAIN uuid_to_user
       THEN /\ sessions' = create_session_map(user_uuid[c])
            /\ token_counter' = token_counter + 1
            /\ resp' = [resp EXCEPT ![c] =
                          sign_in_success(create_session_token, user_uuid[c])]
       ELSE /\ resp' = [resp EXCEPT ![c] = sign_in_failure]
            /\ UNCHANGED <<sessions, token_counter>>
    /\ sessions_lock' = sessions_lock \ {c}
    /\ pc' = [pc EXCEPT ![c] = "returned"]
    /\ UNCHANGED <<ops, store_vars, users_lock, users_poisoned, sessions_poisoned,
                   req, user_uuid, registered, note>>

\* auth.rs 82-90: create_session under the lock, then the SUCCESS response.
SignInIssue(c) ==
    /\ pc[c] = "si_issue"
    /\ sessions' = create_session_map(user_uuid[c])
    /\ token_counter' = token_counter + 1
    /\ resp' = [resp EXCEPT ![c] =
                  sign_in_success(create_session_token, user_uuid[c])]
    /\ sessions_lock' = sessions_lock \ {c}
    /\ pc' = [pc EXCEPT ![c] = "returned"]
    /\ UNCHANGED <<ops, store_vars, users_lock, users_poisoned, sessions_poisoned,
                   req, user_uuid, registered, note>>

\* --------------------------------------------------------------- sign_out
\* A SignOutRequest arrives (auth.rs 125-131).
SignOutDispatch(c) ==
    /\ pc[c] = "idle"
    /\ ops < MaxOps
    /\ ops' = ops + 1
    /\ \E t \in SignOutTokens :
         req' = [req EXCEPT ![c] = [op |-> "sign_out", username |-> "",
                                    password |-> "", session_token |-> t]]
    /\ pc' = [pc EXCEPT ![c] = "so_lock"]
    /\ UNCHANGED <<store_vars, sessions, token_counter, lock_vars, user_uuid,
                   resp, registered, note>>

\* auth.rs 134-138: panic on a poisoned lock, else lock().
SignOutLock(c) ==
    /\ pc[c] = "so_lock"
    /\ IF sessions_poisoned
       THEN /\ pc' = [pc EXCEPT ![c] = "panicked"]
            /\ UNCHANGED sessions_lock
       ELSE /\ sessions_lock = {}
            /\ sessions_lock' = {c}
            /\ pc' = [pc EXCEPT ![c] = "so_delete"]
    /\ UNCHANGED <<ops, store_vars, sessions, token_counter, users_lock,
                   users_poisoned, sessions_poisoned, req, user_uuid, resp,
                   registered, note>>

\* Mutant of SignOutDelete: a token without a session is answered FAILURE.
SignOutDelete_FailsUnknown(c) ==
    /\ pc[c] = "so_delete"
    /\ note' = [note EXCEPT ![c] =
                  [known |-> FALSE,
                   why |-> IF req[c].session_token \in DOMAIN sessions
                           THEN "live"
                           ELSE IF req[c].session_token \in revoked
                           THEN "revoked" ELSE "never"]]
    /\ sessions' = delete_session_map(req[c].session_token)
    /\ resp' = [resp EXCEPT ![c] =
                  IF req[c].session_token \in DOMAIN sessions
                  THEN sign_out_response
                  ELSE [sign_out_response EXCEPT !.status_code = "FAILURE"]]
    /\ sessions_lock' = sessions_lock \ {c}
    /\ pc' = [pc EXCEPT ![c] = "returned"]
    /\ UNCHANGED <<ops, store_vars, token_counter, users_lock, users_poisoned,
                   sessions_poisoned, req, user_uuid, registered>>

\* Mutant of SignOutDelete: delete_session is not called.
SignOutDelete_NoRevoke(c) ==
    /\ pc[c] = "so_delete"
    /\ note' = [note EXCEPT ![c] =
                  [known |-> FALSE,
                   why |-> IF req[c].session_token \in DOMAIN sessions
                           THEN "live"
                           ELSE IF req[c].session_token \in revoked
                           THEN "revoked" ELSE "never"]]
    /\ resp' = [resp EXCEPT ![c] = sign_out_response]
    /\ sessions_lock' = sessions_lock \ {c}
    /\ pc' = [pc EXCEPT ![c] = "returned"]
    /\ UNCHANGED <<ops, store_vars, sessions, token_counter, users_lock,
                   users_poisoned, sessions_poisoned, req, user_uuid,
                   registered>>

\* auth.rs 139-145: delete_session under the lock, then the SUCCESS response.
SignOutDelete(c) ==
    /\ pc[c] = "so_delete"
    /\ note' = [note EXCEPT ![c] =
                  [known |-> FALSE,
                   why |-> IF req[c].session_token \in DOMAIN sessions
                           THEN "live"
                           ELSE IF req[c].session_token \in revoked
                           THEN "revoked" ELSE "never"]]
    /\ sessions' = delete_session_map(req[c].session_token)
    /\ resp' = [resp EXCEPT ![c] = sign_out_response]
    /\ sessions_lock' = sessions_lock \ {c}
    /\ pc' = [pc EXCEPT ![c] = "returned"]
    /\ UNCHANGED <<ops, store_vars, token_counter, users_lock, users_poisoned,
                   sessions_poisoned, req, user_uuid, registered>>

\* Mutant of DeleteUser: the removal cascades, the sessions of an identity
\* that is no longer stored are removed with it.
DeleteUser_Cascade ==
    /\ users_lock = {}
    /\ ~users_poisoned
    /\ ops < MaxOps
    /\ ops' = ops + 1
    /\ \E id \in DeleteIds :
         /\ uuid_to_user' = delete_user_uuid_map(id)
         /\ username_to_user' = delete_user_username_map(id)
         /\ registered' = {r \in registered : r.user_uuid # id}
         /\ note' = [c \in Callers |->
                       IF /\ pc[c] = "si_lock_sessions"
                          /\ user_uuid[c] = id
                          /\ id \in DOMAIN uuid_to_user
                       THEN [note[c] EXCEPT !.why = "deleted_since"]
                       ELSE note[c]]
    /\ sessions' = [t \in {k \in DOMAIN sessions :
                               sessions[k] \in DOMAIN uuid_to_user'} |->
                      sessions[t]]
    /\ UNCHANGED <<token_counter, lock_vars, pc, req, user_uuid, resp>>

\* ------------------------------------------------------------ delete_user
\* users.rs 92-107, called on the store by whoever holds its lock (no RPC
\* reaches it).  The history variable note records which sign_in calls had
\* authenticated the removed identity and not yet locked the session store.
DeleteUser ==
    /\ users_lock = {}
    /\ ~users_poisoned
    /\ ops < MaxOps
    /\ ops' = ops + 1
    /\ \E id \in DeleteIds :
         /\ uuid_to_user' = delete_user_uuid_map(id)
         /\ username_to_user' = delete_user_username_map(id)
         /\ registered' = {r \in registered : r.user_uuid # id}
         /\ note' = [c \in Callers |->
                       IF /\ pc[c] = "si_lock_sessions"
                          /\ user_uuid[c] = id
                          /\ id \in DOMAIN uuid_to_user
                       THEN [note[c] EXCEPT !.why = "deleted_since"]
                       ELSE note[c]]
    /\ UNCHANGED <<sessions, token_counter, lock_vars, pc, req, user_uuid,
                   resp>>

\* The caller has its response (or its task has panicked) and may send the
\* next request.
Return(c) ==
    /\ pc[c] \in {"returned", "panicked"}
    /\ pc' = [pc EXCEPT ![c] = "idle"]
    /\ req' = [req EXCEPT ![c] = NoReq]
    /\ resp' = [resp EXCEPT ![c] = NoResp]
    /\ note' = [note EXCEPT ![c] = NoNote]
    /\ user_uuid' = [user_uuid EXCEPT ![c] = ""]
    /\ UNCHANGED <<ops, store_vars, sessions, token_counter, lock_vars, registered>>

Next ==
    \/ \E c \in Callers : SignUpDispatch(c)
    \/ \E c \in Callers : SignUpLock(c)
    \/ \E c \in Callers : CreateUserCheck(c)
    \/ \E c \in Callers : CreateUserInsert(c)
    \/ \E c \in Callers : SignInDispatch(c)
    \/ \E c \in Callers : SignInLockUsers(c)
    \/ \E c \in Callers : SignInAuthenticate(c)
    \/ \E c \in Callers : SignInLockSessions(c)
    \/ \E c \in Callers : SignInIssue(c)
    \/ \E c \in Callers : SignOutDispatch(c)
    \/ \E c \in Callers : SignOutLock(c)
    \/ \E c \in Callers : SignOutDelete(c)
    \/ \E c \in Callers : Return(c)
    \/ DeleteUser

\* The service over fresh mutexes.
Spec == Init /\ [][Next]_vars

\* The three RPCs alone: the states reachable by sign_up, sign_in and sign_out
\* (delete_user is reached by no RPC).
NextRpc ==
    \/ \E c \in Callers : SignUpDispatch(c)
    \/ \E c \in Callers : SignUpLock(c)
    \/ \E c \in Callers : CreateUserCheck(c)
    \/ \E c \in Callers : CreateUserInsert(c)
    \/ \E c \in Callers : SignInDispatch(c)
    \/ \E c \in Callers : SignInLockUsers(c)
    \/ \E c \in Callers : SignInAuthenticate(c)
    \/ \E c \in Callers : SignInLockSessions(c)
    \/ \E c \in Callers : SignInIssue(c)
    \/ \E c \in Callers : SignOutDispatch(c)
    \/ \E c \in Callers : SignOutLock(c)
    \/ \E c \in Callers : SignOutDelete(c)
    \/ \E c \in Callers : Return(c)

SpecRpc == Init /\ [][NextRpc]_vars

\* The service over mutexes of which at least one is poisoned.
SpecPoisoned == InitPoisoned /\ [][Next]_vars

\* The steps of caller c's handler after the request was dispatched: the two
\* kinds of step the scheduler has to grant, taking a lock and running the
\* store call under it.
LockStep(c) ==
    \/ SignUpLock(c)
    \/ SignInLockUsers(c)
    \/ SignInLockSessions(c)
    \/ SignOutLock(c)
StoreStep(c) ==
    \/ CreateUserCheck(c)
    \/ CreateUserInsert(c)
    \/ SignInAuthenticate(c)
    \/ SignInIssue(c)
    \/ SignOutDelete(c)

\* Fair scheduling of the callers over fresh mutexes: a handler that can run
\* its store call does, and a handler that waits for a lock which is free
\* again and again gets it.
Fairness ==
    \A c \in Callers : WF_vars(StoreStep(c)) /\ SF_vars(LockStep(c))
SpecFair == Init /\ [][Next]_vars /\ Fairness

\* The service over mutexes in any condition, sound or poisoned.
InitAnyMutex == Init \/ InitPoisoned
SpecAnyMutex == InitAnyMutex /\ [][Next]_vars

\* ------------------------------------------- N sign_ups of one username
\* NumCallers sign_up requests for the same username (any passwords) have been
\* dispatched against the empty credential store.
InitSameName ==
    \E u \in Usernames, pw \in [Callers -> Passwords] :
        /\ username_to_user = << >>
        /\ uuid_to_user = << >>
        /\ sessions = << >>
        /\ token_counter = 0
        /\ users_lock = {}
        /\ sessions_lock = {}
        /\ users_poisoned = FALSE
        /\ sessions_poisoned = FALSE
        /\ pc = [c \in Callers |-> "su_lock"]
        /\ req = [c \in Callers |-> [op |-> "sign_up", username |-> u,
                                     password |-> pw[c], session_token |-> ""]]
        /\ user_uuid = [c \in Callers |-> ""]
        /\ resp = [c \in Callers |-> NoResp]
        /\ ops = NumCallers
        /\ registered = {}
        /\ note = [c \in Callers |-> NoNote]

NextSameName ==
    \/ \E c \in Callers : SignUpLock(c)
    \/ \E c \in Callers : CreateUserCheck(c)
    \/ \E c \in Callers : CreateUserInsert(c)

SpecSameName == InitSameName /\ [][NextSameName]_vars

\* ----------------------------------------------------------------- claims
Returned(c, op) == pc[c] = "returned" /\ req[c].op = op

SignUpsWith(status) ==
    {c \in Callers : Returned(c, "sign_up") /\ resp[c].status_code = status}

\* C1: sign_in(u, p) of a pair that a successful sign_up registered, and whose
\* identity delete_user has not removed, returns SUCCESS with a non-empty
\* session_token and a non-empty user_uuid.
C1_RegisteredSignInSucceeds ==
    \A c \in Callers :
        (Returned(c, "sign_in") /\ note[c].known) =>
            /\ resp[c].status_code = "SUCCESS"
            /\ ~is_empty(resp[c].session_token)
            /\ ~is_empty(resp[c].user_uuid)

\* C2: a sign_up of a username that a successful sign_up has registered (and
\* delete_user has not removed) returns FAILURE, whatever its password.
C2_SecondSignUpFails ==
    \A c \in Callers :
        (Returned(c, "sign_up") /\ note[c].known) =>
            resp[c].status_code = "FAILURE"

\* C3: of NumCallers concurrent sign_ups of one username against the empty
\* store, at most one has returned SUCCESS at any time, none panics, a call
\* that has not returned can always go on, and once all have returned exactly
\* one returned SUCCESS and the others FAILURE.
C3_ExactlyOneSignUpSucceeds ==
    /\ Cardinality(SignUpsWith("SUCCESS")) <= 1
    /\ \A c \in Callers : pc[c] # "panicked"
    /\ (\E c \in Callers : pc[c] # "returned") => ENABLED NextSameName
    /\ (\A c \in Callers : pc[c] = "returned") =>
          /\ Cardinality(SignUpsWith("SUCCESS")) = 1
          /\ Cardinality(SignUpsWith("FAILURE")) = NumCallers - 1

\* C3 witness: all the concurrent sign_ups of the one username have returned.
C3_Witness ==
    /\ NumCallers >= 2
    /\ \A c \in Callers : Returned(c, "sign_up")
    /\ \A c, d \in Callers : req[c].username = req[d].username

\* C4: sign_in of an unknown username and sign_in with a password that does
\* not verify get the same response: FAILURE with empty session_token and
\* empty user_uuid.
C4_FailuresIndistinguishable ==
    /\ \A c \in Callers :
          (Returned(c, "sign_in") /\
           note[c].why \in {"unknown_user", "wrong_password"}) =>
              /\ resp[c].status_code = "FAILURE"
              /\ resp[c].session_token = ""
              /\ resp[c].user_uuid = ""
    /\ \A c, d \in Callers :
          (/\ Returned(c, "sign_in") /\ note[c].why = "unknown_user"
           /\ Returned(d, "sign_in") /\ note[d].why = "wrong_password") =>
              resp[c] = resp[d]

\* C4 witness: one sign_in has returned for an unknown username and another
\* for a registered username with a wrong password.
C4_Witness ==
    \E c, d \in Callers :
        /\ Returned(c, "sign_in") /\ note[c].why = "unknown_user"
        /\ Returned(d, "sign_in") /\ note[d].why = "wrong_password"
        /\ req[d].username \in DOMAIN username_to_user

\* C5: every sign_in response is FAILURE exactly when session_token and
\* user_uuid are both empty, and SUCCESS exactly when both are non-empty.
C5_SignInResponseShape ==
    \A c \in Callers :
        Returned(c, "sign_in") =>
            /\ resp[c].status_code \in {"SUCCESS", "FAILURE"}
            /\ resp[c].status_code = "FAILURE" <=>
                  (is_empty(resp[c].session_token) /\ is_empty(resp[c].user_uuid))
            /\ resp[c].status_code = "SUCCESS" <=>
                  (~is_empty(resp[c].session_token) /\
                   ~is_empty(resp[c].user_uuid))

\* C5 witness: a sign_in has returned SUCCESS and another FAILURE.
C5_Witness ==
    \E c, d \in Callers :
        /\ Returned(c, "sign_in") /\ resp[c].status_code = "SUCCESS"
        /\ Returned(d, "sign_in") /\ resp[d].status_code = "FAILURE"

\* C6: with neither lock poisoned, sign_out never panics and returns SUCCESS
\* for every token: empty, never issued, live or already revoked.
C6_SignOutAlwaysSucceeds ==
    \A c \in Callers :
        req[c].op = "sign_out" =>
            /\ pc[c] # "panicked"
            /\ pc[c] = "returned" => resp[c].status_code = "SUCCESS"

\* C6 witness: sign_out has returned for the empty token and for a token that
\* the session store had not issued.
C6_Witness ==
    /\ ~users_poisoned /\ ~sessions_poisoned
    /\ \E c, d \in Callers :
        /\ Returned(c, "sign_out") /\ req[c].session_token = ""
        /\ Returned(d, "sign_out") /\ req[d].session_token # ""
        /\ note[d].why = "never"

\* C7: the store call of sign_out(t) leaves no session for t, removes no other
\* session and adds none, changes nothing when t has no session (so a second
\* sign_out(t) repeats nothing), and is answered SUCCESS; a token whose
\* session is gone never gets a session again.
C7_SignOutIdempotent ==
    [][ /\ \A c \in Callers :
            (pc[c] = "so_delete" /\ pc'[c] = "returned") =>
                /\ req[c].session_token \notin DOMAIN sessions'
                /\ DOMAIN sessions' = DOMAIN sessions \ {req[c].session_token}
                /\ \A t \in DOMAIN sessions' : sessions'[t] = sessions[t]
                /\ req[c].session_token \notin DOMAIN sessions =>
                      sessions' = sessions
                /\ resp'[c].status_code = "SUCCESS"
        /\ \A t \in revoked : t \notin DOMAIN sessions' ]_vars

\* C7 witness: a second sign_out of a token issued by sign_in, whose session
\* the first sign_out removed, has returned.
C7_Witness ==
    \E c \in Callers :
        /\ Returned(c, "sign_out")
        /\ note[c].why = "revoked"
        /\ req[c].session_token \in revoked

\* C8: a successful create_user(v, p) stores v in both indexes and leaves every
\* identity stored under another username in both indexes.
C8_CreateUserKeepsOthers ==
    [][ \A c \in Callers :
          (/\ pc[c] = "su_insert" /\ pc'[c] = "returned"
           /\ resp'[c].status_code = "SUCCESS") =>
              /\ req[c].username \in DOMAIN username_to_user'
              /\ \E id \in DOMAIN uuid_to_user' :
                    uuid_to_user'[id].username = req[c].username
              /\ \A u \in DOMAIN username_to_user \ {req[c].username} :
                    /\ u \in DOMAIN username_to_user'
                    /\ username_to_user'[u] = username_to_user[u]
                    /\ \E id \in DOMAIN uuid_to_user' :
                          uuid_to_user'[id] = username_to_user[u] ]_vars

\* C9: two registered identities never carry the same id, and two sign_ins
\* of different usernames never return the same user_uuid.
C9_IdsUnique ==
    /\ \A r1, r2 \in registered :
          r1.username # r2.username => r1.user_uuid # r2.user_uuid
    /\ \A c, d \in Callers :
          (/\ Returned(c, "sign_in") /\ resp[c].status_code = "SUCCESS"
           /\ Returned(d, "sign_in") /\ resp[d].status_code = "SUCCESS"
           /\ req[c].username # req[d].username) =>
              resp[c].user_uuid # resp[d].user_uuid

\* C10: the two indexes hold the same identities: each user stored under its
\* username is stored under its id and the other way round, and the maps
\* have equal size.
C10_IndexesAgree ==
    /\ Cardinality(DOMAIN username_to_user) = Cardinality(DOMAIN uuid_to_user)
    /\ \A u \in DOMAIN username_to_user :
          /\ username_to_user[u].username = u
          /\ username_to_user[u].user_uuid \in DOMAIN uuid_to_user
          /\ uuid_to_user[username_to_user[u].user_uuid] = username_to_user[u]
    /\ \A id \in DOMAIN uuid_to_user :
          /\ uuid_to_user[id].user_uuid = id
          /\ uuid_to_user[id].username \in DOMAIN username_to_user
          /\ username_to_user[uuid_to_user[id].username] = uuid_to_user[id]

\* A step of delete_user: the one operation that is counted without moving a
\* caller.
DeleteUserStep == pc' = pc /\ ops' = ops + 1

\* C11: delete_user(id) with an id that is no key of uuid_to_user leaves both
\* maps as they are, whatever the store holds.
C11_DeleteAbsentIsNoOp ==
    \A id \in DeleteIds :
        id \notin DOMAIN uuid_to_user =>
            /\ delete_user_uuid_map(id) = uuid_to_user
            /\ delete_user_username_map(id) = username_to_user

\* C12: delete_user(id) with the id of a stored identity removes that identity
\* from both maps and no other; afterwards get_user_uuid of its username
\* returns None for every password and the uniqueness check of create_user
\* passes for that username again.
C12_DeleteRemovesIdentity ==
    [][ \A id \in DOMAIN uuid_to_user :
          (DeleteUserStep /\ id \notin DOMAIN uuid_to_user') =>
              \A name \in {uuid_to_user[id].username} :
                /\ name \notin DOMAIN username_to_user'
                /\ \A k \in DOMAIN uuid_to_user \ {id} :
                      k \in DOMAIN uuid_to_user' /\
                      uuid_to_user'[k] = uuid_to_user[k]
                /\ \A k \in DOMAIN username_to_user \ {name} :
                      k \in DOMAIN username_to_user' /\
                      username_to_user'[k] = username_to_user[k]
                /\ DOMAIN uuid_to_user' \subseteq DOMAIN uuid_to_user
                /\ DOMAIN username_to_user' \subseteq DOMAIN username_to_user
                /\ \A p \in Passwords : ~(get_user_uuid(name, p).some)'
                /\ ~(username_exists(name))' ]_vars

\* C12 witness: an identity was signed up, delete_user with its id has emptied
\* both maps, and a sign_in with its username and password has been answered
\* FAILURE.
C12_Witness ==
    \E c, d \in Callers :
        /\ Returned(c, "sign_up") /\ resp[c].status_code = "SUCCESS"
        /\ Returned(d, "sign_in") /\ resp[d].status_code = "FAILURE"
        /\ req[d].username = req[c].username
        /\ req[d].password = req[c].password
        /\ ~note[d].known
        /\ uuid_to_user = << >> /\ username_to_user = << >>
        /\ registered = {}
        /\ ops = 3

\* Positions of a caller inside a method of the credential store and of the
\* session store.
InUsersStore(c) == pc[c] \in {"su_check", "su_insert", "si_auth"}
InSessionsStore(c) == pc[c] \in {"si_issue", "so_delete"}

\* C13: each store has its own lock: at most one caller is inside a method of
\* a store, a caller is inside a store method exactly while it holds that
\* store's lock, and a caller that has returned (with SUCCESS or FAILURE), has
\* panicked or is idle holds neither lock.
C13_LocksExclusiveAndReleased ==
    /\ Cardinality({c \in Callers : InUsersStore(c)}) <= 1
    /\ Cardinality({c \in Callers : InSessionsStore(c)}) <= 1
    /\ users_lock = {c \in Callers : InUsersStore(c)}
    /\ sessions_lock = {c \in Callers : InSessionsStore(c)}
    /\ \A c \in Callers :
          pc[c] \in {"idle", "returned", "panicked"} =>
              c \notin users_lock /\ c \notin sessions_lock
    /\ (\A c \in Callers : pc[c] \in {"idle", "returned", "panicked"}) =>
          users_lock = {} /\ sessions_lock = {}

\* C13 witness: one caller is inside create_user holding the credential-store
\* lock while another is inside a session-store method holding that store's
\* lock; the first caller's sign_up is about to fail on a duplicate username.
C13_Witness ==
    \E c, d \in Callers :
        /\ pc[c] = "su_check" /\ users_lock = {c}
        /\ username_exists(req[c].username)
        /\ InSessionsStore(d) /\ sessions_lock = {d}

\* C14: sign_in is not atomic across the two stores.  A sign_in that has
\* authenticated identity i and whose identity is removed by delete_user(i)
\* before create_session takes the session-store lock still returns SUCCESS:
\* create_session is called with the uuid the caller holds, whatever the
\* credential store holds by then, the token it returns is live and its
\* session carries that uuid, and the credential store is not consulted again.
C14_SignInNotAtomic ==
    /\ [](\A c \in Callers :
            (Returned(c, "sign_in") /\ note[c].why = "deleted_since") =>
                resp[c].status_code = "SUCCESS")
    /\ [][\A c \in Callers :
            (pc[c] = "si_issue" /\ pc'[c] = "returned") =>
                /\ resp'[c].status_code = "SUCCESS"
                /\ resp'[c].user_uuid = user_uuid[c]
                /\ resp'[c].session_token \in DOMAIN sessions'
                /\ resp'[c].session_token \notin DOMAIN sessions
                /\ sessions'[resp'[c].session_token] = user_uuid[c]
                /\ UNCHANGED store_vars]_vars

\* C14 witness: the interleaving itself.  A sign_in of a registered identity
\* was authenticated, delete_user of that identity ran before the caller took
\* the session-store lock, and the sign_in has returned SUCCESS with a live
\* token whose session refers to an identity that is in neither index.
C14_Witness ==
    \E c \in Callers :
        /\ Returned(c, "sign_in")
        /\ note[c].known
        /\ note[c].why = "deleted_since"
        /\ resp[c].status_code = "SUCCESS"
        /\ resp[c].session_token \in DOMAIN sessions
        /\ sessions[resp[c].session_token] = resp[c].user_uuid
        /\ resp[c].user_uuid \notin DOMAIN uuid_to_user
        /\ \A name \in DOMAIN username_to_user :
              username_to_user[name].user_uuid # resp[c].user_uuid

\* C15: multiple sessions per identity are permitted.  create_session adds a
\* session under a token that was never issued before and keeps every session
\* there is, those of the same identity included; two sign_ins that have
\* returned SUCCESS carry different tokens; and a session leaves the store
\* only by the sign_out of its own token, so the sign_out of one token leaves
\* the other sessions of the identity live.
C15_MultipleSessions ==
    /\ [](\A c, d \in Callers :
            (/\ c # d
             /\ Returned(c, "sign_in") /\ resp[c].status_code = "SUCCESS"
             /\ Returned(d, "sign_in") /\ resp[d].status_code = "SUCCESS") =>
                resp[c].session_token # resp[d].session_token)
    /\ [][ /\ \A c \in Callers :
                (pc[c] = "si_issue" /\ pc'[c] = "returned") =>
                    /\ resp'[c].session_token \notin DOMAIN sessions \cup revoked
                    /\ DOMAIN sessions' =
                          DOMAIN sessions \cup {resp'[c].session_token}
                    /\ \A t \in DOMAIN sessions : sessions'[t] = sessions[t]
           /\ \A t \in DOMAIN sessions \ DOMAIN sessions' :
                \E c \in Callers :
                    /\ pc[c] = "so_delete" /\ pc'[c] = "returned"
                    /\ req[c].session_token = t
                    /\ DOMAIN sessions' = DOMAIN sessions \ {t} ]_vars

\* C15 witness: after one sign_up, two sign_ins of the identity got the tokens
\* 1 and 2, the sign_out of token 1 has returned after removing its session,
\* and the session of token 2 is still live for the same identity.
C15_Witness ==
    \E c, d \in Callers :
        /\ Returned(c, "sign_out") /\ note[c].why = "live"
        /\ req[c].session_token = Token(1)
        /\ Token(1) \in revoked
        /\ Returned(d, "sign_in") /\ resp[d].status_code = "SUCCESS"
        /\ resp[d].session_token = Token(2)
        /\ Token(2) \in DOMAIN sessions
        /\ sessions[Token(2)] = resp[d].user_uuid
        /\ token_counter = 2
        /\ \E r \in registered : r.user_uuid = resp[d].user_uuid

\* C16: each operation changes only its own store.  No step of sign_up and
\* no delete_user changes the session store (the sessions of a deleted
\* identity stay live), and no step of sign_out or sign_in changes either
\* index of the credential store.
C16_OwnStoreOnly ==
    [][ /\ \A c \in Callers :
             (pc[c] \in {"su_lock", "su_check", "su_insert"} /\ pc'[c] # pc[c]) =>
                 UNCHANGED <<sessions, token_counter>>
        /\ DeleteUserStep =>
              /\ UNCHANGED <<sessions, token_counter>>
              /\ \A t \in DOMAIN sessions :
                    sessions[t] \notin DOMAIN uuid_to_user' =>
                        t \in DOMAIN sessions' /\ sessions'[t] = sessions[t]
        /\ \A c \in Callers :
             (pc[c] \in {"so_lock", "so_delete"} /\ pc'[c] # pc[c]) =>
                 UNCHANGED store_vars
        /\ \A c \in Callers :
             (/\ pc[c] \in {"si_lock_users", "si_auth", "si_lock_sessions",
                            "si_issue"}
              /\ pc'[c] # pc[c]) =>
                 UNCHANGED store_vars ]_vars

\* C16 witness: a sign_in has returned SUCCESS, delete_user then removed the
\* identity it signed in, and the session is still live although no identity
\* is stored.
C16_Witness ==
    \E c \in Callers :
        /\ Returned(c, "sign_in") /\ resp[c].status_code = "SUCCESS"
        /\ note[c].why = "verified"
        /\ resp[c].session_token \in DOMAIN sessions
        /\ sessions[resp[c].session_token] \notin DOMAIN uuid_to_user
        /\ uuid_to_user = << >> /\ username_to_user = << >>
        /\ ops = 3

\* The locks an operation needs up to the point it has reached: sign_up the
\* credential store's, sign_out the session store's, sign_in the credential
\* store's and, once authenticated, the session store's.
NeedsUsersLock(c) == req[c].op \in {"sign_up", "sign_in"}
NeedsSessionsLock(c) ==
    \/ req[c].op = "sign_out"
    \/ req[c].op = "sign_in" /\ user_uuid[c] # ""

\* C17: domain errors become status codes and only a poisoned lock is fatal.
\* When neither lock is poisoned no operation panics, and every operation
\* that has returned carries SUCCESS or FAILURE; an operation panics only on a
\* poisoned lock that it needs, it then carries no response, the step that
\* panics changes no store, and a store whose lock is poisoned is never
\* modified.
C17_OnlyPoisonIsFatal ==
    /\ [](/\ (~users_poisoned /\ ~sessions_poisoned) =>
                \A c \in Callers : pc[c] # "panicked"
          /\ \A c \in Callers :
                pc[c] = "returned" =>
                    /\ resp[c].status_code \in {"SUCCESS", "FAILURE"}
                    /\ NeedsUsersLock(c) => ~users_poisoned
                    /\ NeedsSessionsLock(c) => ~sessions_poisoned
          /\ \A c \in Callers :
                pc[c] = "panicked" =>
                    /\ resp[c] = NoResp
                    /\ \/ NeedsUsersLock(c) /\ users_poisoned
                       \/ NeedsSessionsLock(c) /\ sessions_poisoned
          /\ users_poisoned => username_to_user = << >> /\ uuid_to_user = << >>
          /\ sessions_poisoned => sessions = << >> /\ token_counter = 0)
    /\ [][\A c \in Callers :
            (pc[c] # "panicked" /\ pc'[c] = "panicked") =>
                UNCHANGED <<store_vars, sessions, token_counter>>]_vars

\* C17 witness: the session store's lock is poisoned, the credential store's
\* is sound.  A sign_up of a taken username has returned FAILURE, and a
\* sign_in that was authenticated has panicked at the session store with no
\* response and no session.
C17_Witness ==
    \E c, d \in Callers :
        /\ sessions_poisoned /\ ~users_poisoned
        /\ pc[c] = "panicked" /\ req[c].op = "sign_in"
        /\ note[c].why = "verified"
        /\ resp[c] = NoResp
        /\ sessions = << >>
        /\ Returned(d, "sign_up") /\ resp[d].status_code = "FAILURE"
        /\ note[d].known

\* A dispatched operation that has not yet returned or panicked.
InFlight(c) == pc[c] \notin {"idle", "returned", "panicked"}

\* C18: every dispatched operation runs to completion.  No caller holds the
\* two locks at the same time, a caller that waits for a lock never holds the
\* other one, whenever an operation is in flight some handler can take a step
\* (no deadlock), and under fair scheduling over unpoisoned locks every
\* operation in flight eventually returns its response.
C18_RunsToCompletion ==
    /\ [](/\ users_lock \cap sessions_lock = {}
          /\ \A c \in Callers :
                pc[c] \in {"su_lock", "si_lock_users", "si_lock_sessions",
                           "so_lock"} =>
                    c \notin users_lock \cup sessions_lock
          /\ (\E c \in Callers : InFlight(c)) =>
                \E d \in Callers : ENABLED (LockStep(d) \/ StoreStep(d))
          /\ \A c \in Callers : pc[c] # "panicked")
    /\ \A c \in Callers :
          InFlight(c) ~>
              (pc[c] = "returned" /\ resp[c].status_code \in {"SUCCESS", "FAILURE"})

\* C18 witness: a sign_in has gone through both stores, one lock after the
\* other, and returned SUCCESS; the other caller has taken the session-store
\* lock after it and is inside delete_session for the token just issued.
C18_Witness ==
    \E c, d \in Callers :
        /\ Returned(c, "sign_in") /\ resp[c].status_code = "SUCCESS"
        /\ pc[d] = "so_delete" /\ sessions_lock = {d}
        /\ users_lock = {}
        /\ req[d].session_token = resp[c].session_token

\* C19: an operation that returns FAILURE changes nothing.  The step on which
\* a sign_up or a sign_in returns FAILURE leaves both indexes of the
\* credential store, the sessions and the issued tokens as they were, and so
\* does every step such an operation takes before it: taking the
\* credential-store lock, the uniqueness check of create_user and
\* get_user_uuid.  A stored identity therefore keeps its id and its password
\* hash across a failed sign_up of its username.
C19_FailureChangesNothing ==
    [][ /\ \A c \in Callers :
             (/\ pc[c] # "returned" /\ pc'[c] = "returned"
              /\ resp'[c].status_code = "FAILURE") =>
                 /\ req[c].op \in {"sign_up", "sign_in"}
                 /\ UNCHANGED <<store_vars, sessions, token_counter>>
                 /\ resp'[c].session_token = ""
        /\ \A c \in Callers :
             (/\ pc[c] \in {"su_lock", "su_check", "si_lock_users", "si_auth"}
              /\ pc'[c] # pc[c]) =>
                 UNCHANGED <<store_vars, sessions, token_counter>> ]_vars

\* C19 witness: a sign_up of a taken username with another password has
\* returned FAILURE and the stored identity still verifies the password it was
\* registered with and not the new one; a sign_in has returned FAILURE and
\* there is no session.
C19_Witness ==
    \E c, d \in Callers :
        /\ Returned(c, "sign_up") /\ resp[c].status_code = "FAILURE"
        /\ note[c].known
        /\ \E r \in registered :
              /\ r.username = req[c].username
              /\ r.password # req[c].password
              /\ get_user_uuid(r.username, r.password).some
              /\ ~get_user_uuid(r.username, req[c].password).some
        /\ Returned(d, "sign_in") /\ resp[d].status_code = "FAILURE"
        /\ sessions = << >> /\ token_counter = 0

====
